---- MODULE Spec2Model ----
(***************************************************************************)
(* Peer registry and peer dialing of bazil's server package                *)
(* (src/server/peer.go): findPeer, GetPeer, MakePeer, OpenKVForPeer and     *)
(* DialPeer running concurrently against one bolt database.                *)
(*                                                                         *)
(* Representation of Go values:                                            *)
(*   uint32 / peer.ID   a pair <<hi, lo>> of 16-bit halves (the value is    *)
(*                      hi * 2^16 + lo), so that the real 32-bit width is    *)
(*                      kept without leaving TLC's integer range;           *)
(*   []byte             a sequence of numbers 0..255;                       *)
(*   a nilable value    <<>> for nil, <<x>> for a present x;                *)
(*   error              a string, "nil" for no error;                       *)
(*   a bolt bucket      a function from the keys present to their values.   *)
(***************************************************************************)
EXTENDS Integers, Sequences, FiniteSets, TLC

\* Number of public keys the callers use.
NumKeys == 2
\* Number of concurrent callers (goroutines calling into App).
NumProcs == 2
\* Largest number of backends a storage binding lists.
MaxBackends == 2

Keys == 1..NumKeys
Procs == 1..NumProcs
Backends == 1..MaxBackends

None == <<>>
Some(x) == <<x>>

----------------------------------------------------------------------------
(* uint32 arithmetic and encodings *)

U32Zero == <<0, 0>>

\* id++ on a uint32: wraps from 0xFFFFFFFF to 0.
U32Inc(u) ==
    IF u[2] = 65535 THEN <<(u[1] + 1) % 65536, 0>> ELSE <<u[1], u[2] + 1>>

\* Numeric order of uint32 values.
U32Less(a, b) == a[1] < b[1] \/ (a[1] = b[1] /\ a[2] < b[2])

\* The decoding with the byte order reversed (binary.LittleEndian.Uint32).
LittleEndianUint32(k) == <<k[4] * 256 + k[3], k[2] * 256 + k[1]>>

\* binary.BigEndian.Uint32(k)
BigEndianUint32(k) == <<k[1] * 256 + k[2], k[3] * 256 + k[4]>>

\* The encoding with the byte order reversed (binary.LittleEndian.PutUint32).
LittleEndianPutUint32(u) == <<u[2] % 256, u[2] \div 256, u[1] % 256, u[1] \div 256>>

\* binary.BigEndian.PutUint32(idKey[:], uint32(id))
BigEndianPutUint32(u) == <<u[1] \div 256, u[1] % 256, u[2] \div 256, u[2] % 256>>

\* bytes.Compare(a, b) < 0: the order bolt keeps the keys of a bucket in.
RECURSIVE BytesLess(_, _)
BytesLess(a, b) ==
    IF b = <<>> THEN FALSE
    ELSE IF a = <<>> THEN TRUE
    ELSE IF a[1] # b[1] THEN a[1] < b[1]
    ELSE BytesLess(Tail(a), Tail(b))

\* The five 7-bit groups of a uint32, least significant first.
VarintGroups(u) ==
    << u[2] % 128,
       (u[2] \div 128) % 128,
       (u[2] \div 16384) + (u[1] % 32) * 4,
       (u[1] \div 32) % 128,
       u[1] \div 4096 >>

\* Protobuf base-128 varint of a uint32: the groups up to the last non-zero
\* one, every group but the last with the continuation bit set.
EncodeVarint(u) ==
    LET g == VarintGroups(u)
        used == {i \in 1..5 : g[i] # 0}
        n == IF used = {} THEN 1 ELSE CHOOSE i \in used : \A j \in used : j <= i
    IN  [i \in 1..n |-> IF i < n THEN g[i] + 128 ELSE g[i]]

\* The uint32 a varint of at most five bytes stands for (bits above 32 are
\* dropped, as the decoder's conversion to uint32 does).
DecodeVarint(b) ==
    LET g == [i \in 1..5 |-> IF i <= Len(b) THEN b[i] % 128 ELSE 0]
    IN  << (g[3] \div 4) + g[4] * 32 + (g[5] % 16) * 4096,
           g[1] + g[2] * 128 + (g[3] % 4) * 16384 >>

\* A well-formed varint: one to five bytes, continuation bit on all but the last.
IsVarint(b) ==
    /\ Len(b) \in 1..5
    /\ \A i \in 1..Len(b) : (b[i] >= 128) <=> (i < Len(b))

\* proto.Marshal(&wire.Peer{Id: id}): field 1 (Id, varint, tag byte 0x08),
\* omitted when zero.
MarshalPeer(msg) ==
    IF msg.Id = U32Zero THEN <<>> ELSE <<8>> \o EncodeVarint(msg.Id)

\* proto.Unmarshal(val, &msg) for wire.Peer.
UnmarshalPeer(val) ==
    IF val = <<>> THEN [err |-> "nil", msg |-> [Id |-> U32Zero]]
    ELSE IF val[1] = 8 /\ IsVarint(Tail(val))
         THEN [err |-> "nil", msg |-> [Id |-> DecodeVarint(Tail(val))]]
         ELSE [err |-> "proto: unmarshal error", msg |-> [Id |-> U32Zero]]

----------------------------------------------------------------------------
(* bolt buckets *)

\* bucket.Get(key): nil when the key is absent.
BucketGet(bucket, key) ==
    IF key \in DOMAIN bucket THEN Some(bucket[key]) ELSE None

\* bucket.Put(key, value)
BucketPut(bucket, key, value) ==
    [k \in DOMAIN bucket \cup {key} |-> IF k = key THEN value ELSE bucket[k]]

\* k, _ := bucket.Cursor().Last(): the greatest key in byte order, nil when
\* the bucket is empty.
CursorLast(bucket) ==
    IF DOMAIN bucket = {} THEN None
    ELSE Some(CHOOSE k \in DOMAIN bucket :
                 \A j \in DOMAIN bucket : j = k \/ BytesLess(j, k))

----------------------------------------------------------------------------
(* The program state *)

VARIABLES
    bucketPeer,         \* tokens.BucketPeer: public key -> marshalled wire.Peer
    bucketPeerID,       \* tokens.BucketPeerID: 4-byte big-endian id -> public key
    bucketPeerAddr,     \* tokens.BucketPeerAddr: public key -> address
    bucketPeerStorage,  \* tokens.BucketPeerStorage: public key -> wire.PeerStorage
    writer,             \* the caller holding bolt's writer lock, 0 when free
    pc,                 \* where each caller is
    pub,                \* the public key argument of each caller's current call
    local,              \* each caller's local variables
    conn,               \* the network connection of each caller's last DialPeer
    ret                 \* what each caller's last call returned

buckets == <<bucketPeer, bucketPeerID, bucketPeerAddr, bucketPeerStorage>>
vars == <<bucketPeer, bucketPeerID, bucketPeerAddr, bucketPeerStorage,
          writer, pc, pub, local, conn, ret>>

NoTx == [peer |-> <<>>, peerID |-> <<>>]
NoLocal == [tx |-> NoTx, backends |-> {}, kvstores |-> <<>>, expect |-> None,
            rtx |-> FALSE]
NoConn == [state |-> "none", addr |-> "", presented |-> None, silent |-> FALSE,
           closes |-> 0]
\* A return: the operation and its argument, the source line of the return
\* statement taken, and the values returned.
NoRet == [op |-> "none", pub |-> 0, line |-> 0, err |-> "nil", val |-> None]
Return(o, k, l, e, v) == [op |-> o, pub |-> k, line |-> l, err |-> e, val |-> v]

----------------------------------------------------------------------------
(* findPeer, GetPeer, MakePeer *)

\* findPeer leaving the ID of the peer it builds unset.
findPeerNoID(peers, k) ==
    LET val == BucketGet(peers, k) IN
    IF val = None THEN [p |-> None, err |-> "ErrPeerNotFound"]
    ELSE LET u == UnmarshalPeer(val[1]) IN
         IF u.err # "nil" THEN [p |-> None, err |-> u.err]
         ELSE [p |-> Some([ID |-> U32Zero, Pub |-> k]), err |-> "nil"]

\* findPeer taking a record that does not decode for no record.
findPeerIgnoreCorrupt(peers, k) ==
    LET val == BucketGet(peers, k) IN
    IF val = None THEN [p |-> None, err |-> "ErrPeerNotFound"]
    ELSE LET u == UnmarshalPeer(val[1]) IN
         IF u.err # "nil" THEN [p |-> None, err |-> "ErrPeerNotFound"]
         ELSE [p |-> Some([ID |-> u.msg.Id, Pub |-> k]), err |-> "nil"]

\* App.findPeer(tx, pub), tx given by its peer bucket.
findPeer(peers, k) ==
    LET val == BucketGet(peers, k) IN
    IF val = None THEN [p |-> None, err |-> "ErrPeerNotFound"]
    ELSE LET u == UnmarshalPeer(val[1]) IN
         IF u.err # "nil" THEN [p |-> None, err |-> u.err]
         ELSE [p |-> Some([ID |-> u.msg.Id, Pub |-> k]), err |-> "nil"]

\* GetPeer whose closure assigns to a p of its own, so that the p returned
\* stays nil.
GetPeerShadowed(peers, k) ==
    LET r == findPeer(peers, k) IN [p |-> None, err |-> r.err]

\* App.GetPeer(pub): findPeer under DB.View, a read-only transaction on the
\* committed state; on error the peer returned is nil.
GetPeer(peers, k) ==
    LET r == findPeer(peers, k) IN
    IF r.err # "nil" THEN [p |-> None, err |-> r.err] ELSE r

\* The id picked without the increment.
PickIDNoIncrement(idBucket) ==
    LET k == CursorLast(idBucket) IN
    IF k # None THEN BigEndianUint32(k[1]) ELSE U32Zero

\* The id picked with the last key decoded in the reverse byte order.
PickIDLittleEndian(idBucket) ==
    LET k == CursorLast(idBucket)
        id == IF k # None THEN LittleEndianUint32(k[1]) ELSE U32Zero
    IN  U32Inc(id)

\* The id the getOrMake closure picks: the last key of the id bucket decoded
\* (zero when the bucket is empty), plus one.
PickID(idBucket) ==
    LET k == CursorLast(idBucket)
        id == IF k # None THEN BigEndianUint32(k[1]) ELSE U32Zero
    IN  U32Inc(id)

\* getOrMake without the lookup repeated inside the transaction.
getOrMakeNoRecheck(tx, k) ==
    LET id == PickID(tx.peerID) IN
    IF id = U32Zero
    THEN [tx |-> tx, p |-> None, err |-> "out of peer IDs"]
    ELSE [tx |-> [peerID |-> BucketPut(tx.peerID, BigEndianPutUint32(id), k),
                  peer |-> BucketPut(tx.peer, k, MarshalPeer([Id |-> id]))],
          p |-> Some([ID |-> id, Pub |-> k]),
          err |-> "nil"]

\* getOrMake without the Put into the id bucket.
getOrMakeNoIndex(tx, k) ==
    LET found == findPeer(tx.peer, k) IN
    IF found.err # "ErrPeerNotFound"
    THEN [tx |-> tx, p |-> found.p, err |-> found.err]
    ELSE LET id == PickID(tx.peerID) IN
         IF id = U32Zero
         THEN [tx |-> tx, p |-> found.p, err |-> "out of peer IDs"]
         ELSE [tx |-> [peerID |-> tx.peerID,
                       peer |-> BucketPut(tx.peer, k, MarshalPeer([Id |-> id]))],
               p |-> Some([ID |-> id, Pub |-> k]),
               err |-> "nil"]

\* getOrMake without the test for the id wrapping to zero.
getOrMakeNoWrapCheck(tx, k) ==
    LET found == findPeer(tx.peer, k) IN
    IF found.err # "ErrPeerNotFound"
    THEN [tx |-> tx, p |-> found.p, err |-> found.err]
    ELSE LET id == PickID(tx.peerID) IN
         [tx |-> [peerID |-> BucketPut(tx.peerID, BigEndianPutUint32(id), k),
                  peer |-> BucketPut(tx.peer, k, MarshalPeer([Id |-> id]))],
          p |-> Some([ID |-> id, Pub |-> k]),
          err |-> "nil"]

\* The getOrMake closure of MakePeer, run inside the write transaction tx (the
\* transaction's view of the peer and id buckets).  Yields the transaction's
\* buckets after the closure, the captured p and the closure's error.
getOrMake(tx, k) ==
    LET found == findPeer(tx.peer, k) IN
    IF found.err # "ErrPeerNotFound"
    THEN [tx |-> tx, p |-> found.p, err |-> found.err]
    ELSE LET id == PickID(tx.peerID) IN
         IF id = U32Zero
         THEN [tx |-> tx, p |-> found.p, err |-> "out of peer IDs"]
         ELSE [tx |-> [peerID |-> BucketPut(tx.peerID, BigEndianPutUint32(id), k),
                       peer |-> BucketPut(tx.peer, k, MarshalPeer([Id |-> id]))],
               p |-> Some([ID |-> id, Pub |-> k]),
               err |-> "nil"]

\* DB.Update(fn): what the transaction leaves committed.  bolt commits when fn
\* returns nil and rolls back when it returns an error.
DBUpdate(tx, r) == IF r.err = "nil" THEN r.tx ELSE tx

\* GetPeer registering the key when it finds no record.
CallGetPeerCreates(c, k) ==
    /\ pc[c] = "idle"
    /\ writer = 0
    /\ LET r == getOrMake([peer |-> bucketPeer, peerID |-> bucketPeerID], k) IN
       /\ bucketPeer' = r.tx.peer
       /\ bucketPeerID' = r.tx.peerID
       /\ ret' = [ret EXCEPT ![c] =
                    Return("GetPeer", k, IF r.err # "nil" THEN 60 ELSE 62, r.err, r.p)]
    /\ UNCHANGED <<bucketPeerAddr, bucketPeerStorage, writer, pc, pub, local, conn>>

\* A caller calls GetPeer(k).
CallGetPeer(c, k) ==
    /\ pc[c] = "idle"
    /\ LET r == GetPeer(bucketPeer, k) IN
       ret' = [ret EXCEPT ![c] =
                 Return("GetPeer", k, IF r.err # "nil" THEN 60 ELSE 62, r.err, r.p)]
    /\ UNCHANGED <<buckets, writer, pc, pub, local, conn>>

\* A caller calls MakePeer(k): the optimistic GetPeer.  Anything but
\* ErrPeerNotFound is returned; otherwise the caller goes on to DB.Update.
MakePeerOptimistic(c, k) ==
    /\ pc[c] = "idle"
    /\ LET r == GetPeer(bucketPeer, k) IN
       IF r.err # "ErrPeerNotFound"
       THEN /\ ret' = [ret EXCEPT ![c] = Return("MakePeer", k, 72, r.err, r.p)]
            /\ UNCHANGED <<pc, pub>>
       ELSE /\ pc' = [pc EXCEPT ![c] = "Update"]
            /\ pub' = [pub EXCEPT ![c] = k]
            /\ ret' = [ret EXCEPT ![c] = NoRet]
    /\ UNCHANGED <<buckets, writer, local, conn>>

\* DB.Update beginning without waiting for the writer lock.
UpdateBeginNoLock(c) ==
    /\ pc[c] = "Update"
    /\ writer' = c
    /\ pc' = [pc EXCEPT ![c] = "getOrMake"]
    /\ local' = [local EXCEPT ![c].tx = [peer |-> bucketPeer, peerID |-> bucketPeerID]]
    /\ UNCHANGED <<buckets, pub, conn, ret>>

\* DB.Update begins: bolt hands the writer lock to one transaction at a time,
\* and the transaction works on the state committed when it began.
UpdateBegin(c) ==
    /\ pc[c] = "Update"
    /\ writer = 0
    /\ writer' = c
    /\ pc' = [pc EXCEPT ![c] = "getOrMake"]
    /\ local' = [local EXCEPT ![c].tx = [peer |-> bucketPeer, peerID |-> bucketPeerID]]
    /\ UNCHANGED <<buckets, pub, conn, ret>>

\* The getOrMake closure runs in the write transaction, the transaction
\* commits or rolls back, the lock is released and MakePeer returns.
MakePeerUpdate(c) ==
    /\ pc[c] = "getOrMake"
    /\ LET tx == local[c].tx
           r == getOrMake(tx, pub[c])
           after == DBUpdate(tx, r)
       IN  /\ IF r.err = "nil"
              THEN bucketPeer' = after.peer /\ bucketPeerID' = after.peerID
              ELSE UNCHANGED <<bucketPeer, bucketPeerID>>
           /\ ret' = [ret EXCEPT ![c] =
                        IF r.err # "nil"
                        THEN Return("MakePeer", pub[c], 118, r.err, None)
                        ELSE Return("MakePeer", pub[c], 120, "nil", r.p)]
    /\ writer' = IF writer = c THEN 0 ELSE writer
    /\ pc' = [pc EXCEPT ![c] = "idle"]
    /\ pub' = [pub EXCEPT ![c] = 0]
    /\ local' = [local EXCEPT ![c] = NoLocal]
    /\ UNCHANGED <<bucketPeerAddr, bucketPeerStorage, conn>>

----------------------------------------------------------------------------
(* OpenKVForPeer *)

\* proto.Unmarshal(val, &msg) for wire.PeerStorage.  A stored value is kept as
\* [ok, Backends]: whether the bytes decode, and the keys of the Backends map
\* they decode to.
UnmarshalPeerStorage(val) ==
    IF val.ok THEN [err |-> "nil", msg |-> [Backends |-> val.Backends]]
    ELSE [err |-> "proto: unmarshal error", msg |-> [Backends |-> {}]]

\* The find closure reporting a missing storage binding as a missing peer.
findStorageConflated(storage, k) ==
    LET val == BucketGet(storage, k) IN
    IF val = None THEN [err |-> "ErrPeerNotFound", msg |-> [Backends |-> {}]]
    ELSE UnmarshalPeerStorage(val[1])

\* The find closure testing len(val) == 0 where the code tests val == nil: a
\* binding without backends is stored as zero bytes.
findStorageEmptyIsMissing(storage, k) ==
    LET val == BucketGet(storage, k) IN
    IF val = None \/ (val[1].ok /\ val[1].Backends = {})
    THEN [err |-> "ErrNoStorageForPeer", msg |-> [Backends |-> {}]]
    ELSE UnmarshalPeerStorage(val[1])

\* The find closure of OpenKVForPeer under DB.View.
findStorage(storage, k) ==
    LET val == BucketGet(storage, k) IN
    IF val = None THEN [err |-> "ErrNoStorageForPeer", msg |-> [Backends |-> {}]]
    ELSE UnmarshalPeerStorage(val[1])

\* app.openStorage(backend): the backend factory of the hosting application;
\* opens says whether this backend opens.
openStorage(backend, opens) ==
    IF opens THEN [s |-> Some(backend), err |-> "nil"]
    ELSE [s |-> None, err |-> "BackendOpenFailure"]

\* kvmulti.New(kvstores...): the merged handle over the stores opened.
kvmultiNew(kvstores) == Some([stores |-> kvstores])

\* A caller calls OpenKVForPeer(k): the storage binding is read.
OpenKVFind(c, k) ==
    /\ pc[c] = "idle"
    /\ LET r == findStorage(bucketPeerStorage, k) IN
       IF r.err # "nil"
       THEN /\ ret' = [ret EXCEPT ![c] = Return("OpenKVForPeer", k, 137, r.err, None)]
            /\ UNCHANGED <<pc, pub, local>>
       ELSE /\ pc' = [pc EXCEPT ![c] = "openStorage"]
            /\ pub' = [pub EXCEPT ![c] = k]
            /\ local' = [local EXCEPT ![c].backends = r.msg.Backends]
            /\ ret' = [ret EXCEPT ![c] = NoRet]
    /\ UNCHANGED <<buckets, writer, conn>>

\* The range over msg.Backends going on to the next backend when one fails to
\* open, where the code returns.
OpenKVOpenStorageSkip(c) ==
    /\ pc[c] = "openStorage"
    /\ \E backend \in local[c].backends, opens \in BOOLEAN :
         LET r == openStorage(backend, opens) IN
         local' = [local EXCEPT ![c].backends = @ \ {backend},
                                ![c].kvstores = IF r.err # "nil" THEN @
                                                ELSE Append(@, r.s[1])]
    /\ UNCHANGED <<buckets, writer, conn, pc, pub, ret>>

\* One iteration of the range over msg.Backends: Go visits the keys of a map
\* in no fixed order, each once.  A backend that fails to open ends the call.
OpenKVOpenStorage(c) ==
    /\ pc[c] = "openStorage"
    /\ \E backend \in local[c].backends, opens \in BOOLEAN :
         LET r == openStorage(backend, opens) IN
         IF r.err # "nil"
         THEN /\ ret' = [ret EXCEPT ![c] = Return("OpenKVForPeer", pub[c], 144, r.err, None)]
              /\ pc' = [pc EXCEPT ![c] = "idle"]
              /\ pub' = [pub EXCEPT ![c] = 0]
              /\ local' = [local EXCEPT ![c] = NoLocal]
         ELSE /\ local' = [local EXCEPT ![c].backends = @ \ {backend},
                                        ![c].kvstores = Append(@, r.s[1])]
              /\ UNCHANGED <<pc, pub, ret>>
    /\ UNCHANGED <<buckets, writer, conn>>

\* The range is over: the stores opened are merged and returned.
OpenKVMerge(c) ==
    /\ pc[c] = "openStorage"
    /\ local[c].backends = {}
    /\ ret' = [ret EXCEPT ![c] =
                 Return("OpenKVForPeer", pub[c], 149, "nil", kvmultiNew(local[c].kvstores))]
    /\ pc' = [pc EXCEPT ![c] = "idle"]
    /\ pub' = [pub EXCEPT ![c] = 0]
    /\ local' = [local EXCEPT ![c] = NoLocal]
    /\ UNCHANGED <<buckets, writer, conn>>

----------------------------------------------------------------------------
(* DialPeer *)

\* The number of Close calls made on one peerClient.
MaxCloses == 2

\* The lookup closure without the test for a missing address.
lookupNoError(addrs, k, network, addr) ==
    LET val == BucketGet(addrs, k) IN
    [network |-> network, addr |-> IF val = None THEN "" ELSE val[1],
     pub |-> Some(k), err |-> "nil", tx |-> FALSE]

\* The lookup closure returning with its read transaction still open.
lookupLeakTx(addrs, k, network, addr) ==
    LET val == BucketGet(addrs, k) IN
    IF val = None
    THEN [network |-> "", addr |-> "", pub |-> None,
          err |-> "no address known for peer", tx |-> TRUE]
    ELSE [network |-> network, addr |-> val[1], pub |-> Some(k), err |-> "nil",
          tx |-> TRUE]

\* The lookup closure of DialPeer: the address of pub from the address bucket
\* under DB.View, and pub itself as the key the far end must present.  DB.View
\* has ended the read transaction when it returns, so none is open (tx) when
\* lookup returns.
lookup(addrs, k, network, addr) ==
    LET val == BucketGet(addrs, k) IN
    IF val = None
    THEN [network |-> "", addr |-> "", pub |-> None,
          err |-> "no address known for peer", tx |-> FALSE]
    ELSE [network |-> network, addr |-> val[1], pub |-> Some(k), err |-> "nil",
          tx |-> FALSE]

\* grpcedtls.Authenticator: after the TLS handshake the key the far end
\* presented must equal the key Lookup returned.
Authenticate(expect, presented) ==
    IF expect = Some(presented) THEN "nil" ELSE "HandshakeIdentityMismatch"

\* grpc.Dial called without grpc.WithTimeout.
dialOptsNoTimeout == [credentials |-> TRUE, timeout |-> 0]

\* The options DialPeer passes to grpc.Dial: the Authenticator as transport
\* credentials and a timeout of 30 seconds.
dialOpts == [credentials |-> TRUE, timeout |-> 30]

\* DialPeer wrapping the connection whatever grpc.Dial returned.
DialReturnIgnoreErr(c, k, err) ==
    Return("DialPeer", k, 204, err, Some([conn |-> c]))

\* What DialPeer returns once grpc.Dial has returned err: the error alone, or
\* a peerClient around the connection.
DialReturn(c, k, err) ==
    IF err # "nil" THEN Return("DialPeer", k, 197, err, None)
    ELSE Return("DialPeer", k, 204, "nil", Some([conn |-> c]))

\* DialPeer calling grpc.Dial again when it returned an error.
DialNextRetry(err) == IF err # "nil" THEN "Resolving" ELSE "idle"

\* Where the caller is once grpc.Dial has returned err: DialPeer calls
\* grpc.Dial once and returns, whatever it returned.
DialNext(err) == "idle"

\* A caller calls DialPeer(k): the Authenticator is built and grpc.Dial
\* starts on the placeholder target.
DialPeer(c, k) ==
    /\ pc[c] = "idle"
    /\ pc' = [pc EXCEPT ![c] = "Resolving"]
    /\ pub' = [pub EXCEPT ![c] = k]
    /\ conn' = [conn EXCEPT ![c] = NoConn]
    /\ ret' = [ret EXCEPT ![c] = NoRet]
    /\ UNCHANGED <<buckets, writer, local>>

\* The Authenticator calls Lookup, and lookup enters DB.View: a read
\* transaction is open while find runs.
DialView(c) ==
    /\ pc[c] = "Resolving"
    /\ ~local[c].rtx
    /\ local' = [local EXCEPT ![c].rtx = TRUE]
    /\ UNCHANGED <<buckets, writer, pc, pub, conn, ret>>

\* find has read the address bucket and lookup returns.  A Lookup error
\* fails grpc.Dial, and DialPeer returns it.  Otherwise the connection to the
\* resolved address is started; the far end may be one that never completes
\* the handshake (silent).
DialResolve(c) ==
    /\ pc[c] = "Resolving"
    /\ local[c].rtx
    /\ LET r == lookup(bucketPeerAddr, pub[c], "tcp", "placeholder.bazil.org.invalid.:443") IN
       IF r.err # "nil"
       THEN /\ ret' = [ret EXCEPT ![c] = DialReturn(c, pub[c], r.err)]
            /\ pc' = [pc EXCEPT ![c] = DialNext(r.err)]
            /\ pub' = [pub EXCEPT ![c] = 0]
            /\ local' = [local EXCEPT ![c].rtx = r.tx]
            /\ UNCHANGED conn
       ELSE /\ pc' = [pc EXCEPT ![c] = "Handshaking"]
            /\ local' = [local EXCEPT ![c].expect = r.pub, ![c].rtx = r.tx]
            /\ \E silent \in BOOLEAN :
                 conn' = [conn EXCEPT ![c] =
                            [state |-> "connecting", addr |-> r.addr,
                             presented |-> None, silent |-> silent, closes |-> 0]]
            /\ UNCHANGED <<pub, ret>>
    /\ UNCHANGED <<buckets, writer>>

\* The far end at the resolved address presents a key and the handshake ends:
\* the connection is kept when the Authenticator accepts the key and torn
\* down otherwise.  DialPeer wraps the connection in a peerClient only when
\* grpc.Dial returned no error.
DialHandshake(c) ==
    /\ pc[c] = "Handshaking"
    /\ ~conn[c].silent
    /\ \E presented \in Keys :
         LET err == Authenticate(local[c].expect, presented) IN
         /\ conn' = [conn EXCEPT ![c].presented = Some(presented),
                                 ![c].state = IF err # "nil" THEN "closed" ELSE "open"]
         /\ ret' = [ret EXCEPT ![c] = DialReturn(c, pub[c], err)]
         /\ pc' = [pc EXCEPT ![c] = DialNext(err)]
    /\ pub' = [pub EXCEPT ![c] = 0]
    /\ local' = [local EXCEPT ![c] = NoLocal]
    /\ UNCHANGED <<buckets, writer>>

\* The handshake does not complete within grpc.WithTimeout(30*time.Second):
\* grpc.Dial gives up, closes what it had opened and returns an error.
DialTimeout(c) ==
    /\ pc[c] = "Handshaking"
    /\ dialOpts.timeout > 0
    /\ conn' = [conn EXCEPT ![c].state = "closed", ![c].silent = FALSE]
    /\ ret' = [ret EXCEPT ![c] = DialReturn(c, pub[c], "grpc: timed out trying to connect")]
    /\ pc' = [pc EXCEPT ![c] = DialNext("grpc: timed out trying to connect")]
    /\ pub' = [pub EXCEPT ![c] = 0]
    /\ local' = [local EXCEPT ![c] = NoLocal]
    /\ UNCHANGED <<buckets, writer>>

\* grpc.ClientConn.Close: the connection is torn down; on a connection already
\* closed it does nothing and returns no error.
ClientConnClose(cn) == [conn |-> [cn EXCEPT !.state = "closed"], err |-> "nil"]

\* peerClient.Close returning nil without closing the connection.
peerClientCloseNoop(cn) == [conn |-> cn, err |-> "nil"]

\* peerClient.Close: closes the grpc connection and returns its error.
peerClientClose(cn) == ClientConnClose(cn)

\* A caller closes the peerClient DialPeer returned to it, a first time or
\* again.
Close(c) ==
    /\ pc[c] = "idle"
    /\ ret[c].op \in {"DialPeer", "Close"}
    /\ ret[c].val # None
    /\ conn[ret[c].val[1].conn].closes < MaxCloses
    /\ LET r == peerClientClose(conn[ret[c].val[1].conn]) IN
       /\ conn' = [conn EXCEPT ![ret[c].val[1].conn] = [r.conn EXCEPT !.closes = @ + 1]]
       /\ ret' = [ret EXCEPT ![c] = Return("Close", ret[c].pub, 165, r.err, ret[c].val)]
    /\ UNCHANGED <<buckets, writer, pc, pub, local>>

----------------------------------------------------------------------------
(* Initial states and the specification *)

\* The largest id an earlier run may have left in the store, as uint32:
\* 0x000000FE, 0xFFFFFFFE and 0xFFFFFFFF.
PreloadedIDs == {<<0, 254>>, <<65535, 65534>>, <<65535, 65535>>}

\* The database is empty, or earlier runs of the program have registered
\* peers in it.  Of those only the one registered last, which holds the largest
\* id, is represented: the code reads the id index through Cursor.Last only,
\* and the records by public key only.
InitRegistry ==
    \/ bucketPeer = <<>> /\ bucketPeerID = <<>>
    \/ \E k \in Keys, id \in PreloadedIDs :
         /\ bucketPeer = (k :> MarshalPeer([Id |-> id]))
         /\ bucketPeerID = (BigEndianPutUint32(id) :> k)

\* Address and storage bindings are written outside this file.  The keys with
\* an odd number have both, the others have neither; a storage binding lists
\* the first n backends, for any n.
BoundKeys == {k \in Keys : k % 2 = 1}

InitBindings ==
    /\ bucketPeerAddr = [k \in BoundKeys |-> "addr"]
    /\ \E n \in 0..MaxBackends :
         bucketPeerStorage = [k \in BoundKeys |-> [ok |-> TRUE, Backends |-> 1..n]]

Init ==
    /\ InitRegistry
    /\ InitBindings
    /\ writer = 0
    /\ pc = [c \in Procs |-> "idle"]
    /\ pub = [c \in Procs |-> 0]
    /\ local = [c \in Procs |-> NoLocal]
    /\ conn = [c \in Procs |-> NoConn]
    /\ ret = [c \in Procs |-> NoRet]

\* The steps of the registry: GetPeer and MakePeer.
RegistryStep(c) ==
    \/ \E k \in Keys : CallGetPeer(c, k)
    \/ \E k \in Keys : MakePeerOptimistic(c, k)
    \/ UpdateBegin(c)
    \/ MakePeerUpdate(c)

\* The steps of OpenKVForPeer.
StorageStep(c) ==
    \/ \E k \in Keys : OpenKVFind(c, k)
    \/ OpenKVOpenStorage(c)
    \/ OpenKVMerge(c)

\* The steps of one call of DialPeer.
DialAttemptStep(c) ==
    \/ \E k \in Keys : DialPeer(c, k)
    \/ DialView(c)
    \/ DialResolve(c)
    \/ DialHandshake(c)
    \/ DialTimeout(c)

\* The steps of DialPeer and of the peerClient it returns.
DialStep(c) == DialAttemptStep(c) \/ Close(c)

\* Any caller takes a step of any operation.
Next == \E c \in Procs : RegistryStep(c) \/ StorageStep(c) \/ DialStep(c)

Spec == Init /\ [][Next]_vars

\* Callers that use the registry only.
NextRegistry == \E c \in Procs : RegistryStep(c)

SpecRegistry == Init /\ [][NextRegistry]_vars

\* Callers that look peers up and open their storage.
NextStorage == \E c \in Procs : (\E k \in Keys : CallGetPeer(c, k)) \/ StorageStep(c)

SpecStorage == Init /\ [][NextStorage]_vars

\* Stored bytes that are no wire.Peer message: a wrong tag, and a varint cut
\* short.
CorruptRecords == {<<255>>, <<8, 128>>}

\* The stored identity record of a registered key is damaged, by the disk or
\* by another program, while no write transaction is open.
Damage(k) ==
    /\ writer = 0
    /\ k \in DOMAIN bucketPeer
    /\ UnmarshalPeer(bucketPeer[k]).err = "nil"
    /\ \E bad \in CorruptRecords : bucketPeer' = [bucketPeer EXCEPT ![k] = bad]
    /\ UNCHANGED <<bucketPeerID, bucketPeerAddr, bucketPeerStorage, writer, pc,
                   pub, local, conn, ret>>

\* Callers that use the registry of a database whose records get damaged.
NextCorrupt == (\E c \in Procs : RegistryStep(c)) \/ (\E k \in Keys : Damage(k))

SpecCorrupt == Init /\ [][NextCorrupt]_vars

\* Callers that dial.
NextDial == \E c \in Procs : DialStep(c)

SpecDial == Init /\ [][NextDial]_vars

\* Callers that dial; a handshake under way ends by the timeout at the latest,
\* since the timer grpc.WithTimeout sets fires.
SpecDialFair == SpecDial /\ \A c \in Procs : WF_vars(DialTimeout(c))

\* The steps of MakePeer.
MakePeerStep(c) ==
    \/ \E k \in Keys : MakePeerOptimistic(c, k)
    \/ UpdateBegin(c)
    \/ MakePeerUpdate(c)

\* Callers that register peers and dial them.
NextMakeDial == \E c \in Procs : MakePeerStep(c) \/ DialAttemptStep(c)

SpecMakeDial == Init /\ [][NextMakeDial]_vars

----------------------------------------------------------------------------
(* Properties *)

\* The id in the stored identity record of a registered key.
StoredID(k) == UnmarshalPeer(bucketPeer[k]).msg.Id

\* The id-index keys bound to public key k.
IndexKeysOf(k) == {i \in DOMAIN bucketPeerID : bucketPeerID[i] = k}

\* The ids present in the id index.
IndexIDs == {BigEndianUint32(i) : i \in DOMAIN bucketPeerID}

\* Caller c's last call was operation o on key k and returned without error.
ReturnedOK(c, o, k) == ret[c].op = o /\ ret[c].pub = k /\ ret[c].err = "nil"

\* In this step caller c returns from operation o.
Returns(c, o) == ret'[c] # ret[c] /\ ret'[c].op = o

U32Max == <<65535, 65535>>

\* The largest id of the index is the largest uint32.
IndexFull == U32Max \in IndexIDs

\* C1: however MakePeer calls on one public key interleave, the key never has
\* more than one id-index entry; a call fails only for lack of ids; once a call
\* has succeeded the key has exactly one identity record and exactly one
\* id-index entry, and all the calls that succeed return the same peer.
C1_OneIdentityPerKey ==
    \A k \in Keys :
        /\ Cardinality(IndexKeysOf(k)) <= 1
        /\ \A c \in Procs :
             ret[c].op = "MakePeer" /\ ret[c].pub = k /\ ret[c].err # "nil"
                => ret[c].err = "out of peer IDs" /\ IndexFull
        /\ \A c \in Procs :
             ReturnedOK(c, "MakePeer", k) =>
                /\ k \in DOMAIN bucketPeer
                /\ Cardinality(IndexKeysOf(k)) = 1
        /\ \A c, d \in Procs :
             ReturnedOK(c, "MakePeer", k) /\ ReturnedOK(d, "MakePeer", k)
                => ret[c].val = ret[d].val

\* Two callers raced to register the same unregistered key: both found nothing
\* in the optimistic phase, both returned from the write transaction.
C1_Witness ==
    \E k \in Keys : \E c, d \in Procs :
        /\ c # d
        /\ ReturnedOK(c, "MakePeer", k) /\ ret[c].line = 120
        /\ ReturnedOK(d, "MakePeer", k) /\ ret[d].line = 120

\* C2: in every committed state the id index and the identity records are in
\* bijection: the index maps id to pk exactly when the record of pk holds id.
C2_IndexRecordBijection ==
    /\ \A i \in DOMAIN bucketPeerID :
          /\ bucketPeerID[i] \in DOMAIN bucketPeer
          /\ UnmarshalPeer(bucketPeer[bucketPeerID[i]]).err = "nil"
          /\ BigEndianPutUint32(StoredID(bucketPeerID[i])) = i
    /\ \A k \in DOMAIN bucketPeer :
          /\ UnmarshalPeer(bucketPeer[k]).err = "nil"
          /\ BigEndianPutUint32(StoredID(k)) \in DOMAIN bucketPeerID
          /\ bucketPeerID[BigEndianPutUint32(StoredID(k))] = k

\* Two keys are registered, one of them by a MakePeer of this run, while the
\* other operations are under way or have returned.
C2_Witness ==
    /\ Cardinality(DOMAIN bucketPeer) >= 2
    /\ \E c \in Procs : ret[c].op = "MakePeer" /\ ret[c].line = 120
    /\ \E c \in Procs : pc[c] \in {"openStorage", "Handshaking"}

\* C3: MakePeer calls on distinct public keys never get the same id: the
\* registered keys have pairwise distinct ids, in the store and in what the
\* calls return.
C3_DistinctKeysDistinctIDs ==
    /\ \A k, l \in DOMAIN bucketPeer : k # l => StoredID(k) # StoredID(l)
    /\ \A c, d \in Procs :
          /\ ret[c].op = "MakePeer" /\ ret[c].err = "nil"
          /\ ret[d].op = "MakePeer" /\ ret[d].err = "nil"
          /\ ret[c].pub # ret[d].pub
          => ret[c].val[1].ID # ret[d].val[1].ID

\* Two callers registered two different keys, each in its own write
\* transaction.
C3_Witness ==
    \E c, d \in Procs :
        /\ ret[c].op = "MakePeer" /\ ret[c].line = 120 /\ ret[c].err = "nil"
        /\ ret[d].op = "MakePeer" /\ ret[d].line = 120 /\ ret[d].err = "nil"
        /\ ret[c].pub # ret[d].pub

\* C4: an id entering the id index is numerically greater than every id
\* already in it, and an id-index entry, once written, keeps its public key.
C4_MonotonicAllocation ==
    [][ /\ \A i \in DOMAIN bucketPeerID' \ DOMAIN bucketPeerID :
             \A j \in DOMAIN bucketPeerID :
                 U32Less(BigEndianUint32(j), BigEndianUint32(i))
        /\ \A j \in DOMAIN bucketPeerID :
             j \in DOMAIN bucketPeerID' /\ bucketPeerID'[j] = bucketPeerID[j]
      ]_vars

\* An id was allocated in a store that already held one.
C4_Witness ==
    /\ Cardinality(DOMAIN bucketPeerID) >= 2
    /\ \E c \in Procs : ret[c].op = "MakePeer" /\ ret[c].line = 120

\* C5: a MakePeer that returns when the key's record already exists returns
\* the stored id with the key, and its step changes none of the four buckets.
C5_Idempotent ==
    [][ \A c \in Procs :
          Returns(c, "MakePeer") /\ ret'[c].pub \in DOMAIN bucketPeer
          => /\ buckets' = buckets
             /\ ret'[c].err = "nil"
             /\ ret'[c].val = Some([ID |-> StoredID(ret'[c].pub), Pub |-> ret'[c].pub])
      ]_vars

\* Two callers raced to register the same key; the write transaction that ran
\* second found the record in its recheck, and both hold the stored record.
C5_Witness ==
    \E k \in Keys : \E c, d \in Procs :
        /\ c # d
        /\ ret[c].op = "MakePeer" /\ ret[c].line = 120
        /\ ret[d].op = "MakePeer" /\ ret[d].line = 120
        /\ ret[c].val = Some([ID |-> StoredID(k), Pub |-> k])
        /\ ret[d].val = Some([ID |-> StoredID(k), Pub |-> k])

\* A store built up from empty: its id index is empty or holds id 1.
StartedEmpty ==
    bucketPeerID = <<>> \/ BigEndianPutUint32(<<0, 1>>) \in DOMAIN bucketPeerID

\* C6: in a store built up from empty the n keys registered hold exactly the
\* ids 1..n, and a MakePeer that succeeds returns the id its key holds.
C6_DenseFromOne ==
    StartedEmpty =>
        LET n == Cardinality(DOMAIN bucketPeer) IN
        /\ IndexIDs = {<<0, j>> : j \in 1..n}
        /\ {StoredID(k) : k \in DOMAIN bucketPeer} = {<<0, j>> : j \in 1..n}
        /\ \A c \in Procs :
             ret[c].op = "MakePeer" /\ ret[c].err = "nil"
             => /\ ret[c].pub \in DOMAIN bucketPeer
                /\ ret[c].val = Some([ID |-> StoredID(ret[c].pub), Pub |-> ret[c].pub])

\* Starting from empty two keys were registered, the first got id 1, the second
\* id 2, and a later MakePeer of the first returned id 1 again.
C6_Witness ==
    /\ StartedEmpty
    /\ Cardinality(DOMAIN bucketPeer) = 2
    /\ \E c, d \in Procs :
         /\ ret[c].op = "MakePeer" /\ ret[c].line = 72
         /\ ret[c].val = Some([ID |-> <<0, 1>>, Pub |-> ret[c].pub])
         /\ ret[d].op = "MakePeer" /\ ret[d].line = 120
         /\ ret[d].val = Some([ID |-> <<0, 2>>, Pub |-> ret[d].pub])

\* No identity record and no index entry holds id 0.
NoZeroID ==
    /\ U32Zero \notin IndexIDs
    /\ \A k \in DOMAIN bucketPeer : StoredID(k) # U32Zero

\* C7: no record ever holds id 0; and once the index holds the largest uint32,
\* a MakePeer of an unregistered key returns "out of peer IDs" and changes no
\* bucket, while GetPeer and MakePeer of a registered key return its record.
C7_Exhaustion ==
    [][ /\ NoZeroID /\ NoZeroID'
        /\ IndexFull =>
             \A c \in Procs :
                /\ Returns(c, "MakePeer") /\ ret'[c].pub \notin DOMAIN bucketPeer
                   => /\ ret'[c].err = "out of peer IDs"
                      /\ ret'[c].val = None
                      /\ buckets' = buckets
                /\ (Returns(c, "MakePeer") \/ Returns(c, "GetPeer"))
                     /\ ret'[c].pub \in DOMAIN bucketPeer
                   => /\ ret'[c].err = "nil"
                      /\ ret'[c].val =
                           Some([ID |-> StoredID(ret'[c].pub), Pub |-> ret'[c].pub])
      ]_vars

\* With the index full one caller's MakePeer failed for lack of ids and another
\* caller got the record of a registered key.
C7_Witness ==
    /\ IndexFull
    /\ \E c, d \in Procs :
         /\ ret[c].op = "MakePeer" /\ ret[c].err = "out of peer IDs"
         /\ ret[d].op \in {"GetPeer", "MakePeer"} /\ ret[d].err = "nil"

\* C8: GetPeer of a key with no identity record returns ErrPeerNotFound, and
\* OpenKVForPeer of a registered key with no storage binding returns
\* ErrNoStorageForPeer, not ErrPeerNotFound.
C8_NotFoundDistinction ==
    \A c \in Procs :
        /\ ret[c].op = "GetPeer" /\ ret[c].pub \notin DOMAIN bucketPeer
           => ret[c].err = "ErrPeerNotFound" /\ ret[c].val = None
        /\ /\ ret[c].op = "OpenKVForPeer"
           /\ ret[c].pub \in DOMAIN bucketPeer
           /\ ret[c].pub \notin DOMAIN bucketPeerStorage
           => ret[c].err = "ErrNoStorageForPeer" /\ ret[c].val = None

\* One caller looked up an unregistered key, another opened the storage of a
\* registered key that has no storage binding.
C8_Witness ==
    \E c, d \in Procs :
        /\ ret[c].op = "GetPeer" /\ ret[c].pub \notin DOMAIN bucketPeer
        /\ ret[d].op = "OpenKVForPeer"
        /\ ret[d].pub \in DOMAIN bucketPeer
        /\ ret[d].pub \notin DOMAIN bucketPeerStorage

\* C9: a DialPeer whose far end presented a key other than the one dialed
\* returns the identity-mismatch error and no client, with the connection
\* closed; a client is returned only when the key presented is the key dialed.
C9_DialAuthentication ==
    \A c \in Procs :
        ret[c].op = "DialPeer" =>
           /\ conn[c].presented # None /\ conn[c].presented # Some(ret[c].pub)
              => /\ ret[c].err = "HandshakeIdentityMismatch"
                 /\ ret[c].val = None
                 /\ conn[c].state = "closed"
           /\ ret[c].val # None
              => /\ conn[c].presented = Some(ret[c].pub)
                 /\ ret[c].err = "nil"

\* One dial met a far end with another key and failed, another met the key
\* dialed and returned a client.
C9_Witness ==
    \E c, d \in Procs :
        /\ ret[c].op = "DialPeer" /\ ret[c].err = "HandshakeIdentityMismatch"
        /\ ret[d].op = "DialPeer" /\ ret[d].val # None

\* C10: a DialPeer of a key with no address binding returns the
\* address-unknown error without a connection ever being started: no caller is
\* in the handshake for such a key.
C10_NoAddressNoConnection ==
    \A c \in Procs :
        /\ pc[c] = "Handshaking" => pub[c] \in DOMAIN bucketPeerAddr
        /\ ret[c].op = "DialPeer" /\ ret[c].pub \notin DOMAIN bucketPeerAddr
           => /\ ret[c].err = "no address known for peer"
              /\ ret[c].val = None
              /\ conn[c].state = "none"

\* A dial of a key without an address has failed while a dial of a key with an
\* address is in its handshake.
C10_Witness ==
    \E c, d \in Procs :
        /\ ret[c].op = "DialPeer" /\ ret[c].pub \notin DOMAIN bucketPeerAddr
        /\ pc[d] = "Handshaking"

\* The backends of the storage binding of key k.
BindingBackends(k) == UnmarshalPeerStorage(bucketPeerStorage[k]).msg.Backends

\* The stores merged into the handle a successful OpenKVForPeer returned.
MergedStores(c) == ret[c].val[1].stores

\* C11: an OpenKVForPeer call that returns because a backend failed to open
\* returns that backend's error and no merged handle; a call that returns an
\* error returns no handle; and a merged handle is returned only when every
\* backend of the binding was opened, each exactly once, whatever the order
\* the backends were visited in.
C11_NoPartialMerge ==
    \A c \in Procs :
      ret[c].op = "OpenKVForPeer" =>
        /\ ret[c].line = 144 =>
             ret[c].err = "BackendOpenFailure" /\ ret[c].val = None
        /\ ret[c].err # "nil" => ret[c].val = None
        /\ ret[c].val # None =>
             /\ ret[c].err = "nil"
             /\ ret[c].pub \in DOMAIN bucketPeerStorage
             /\ {MergedStores(c)[i] : i \in DOMAIN MergedStores(c)}
                  = BindingBackends(ret[c].pub)
             /\ Len(MergedStores(c)) = Cardinality(BindingBackends(ret[c].pub))

\* Two calls on one key bound to several backends: one failed on a backend,
\* the other opened them all and returned the merged handle.
C11_Witness ==
    \E c, d \in Procs :
      /\ ret[c].op = "OpenKVForPeer" /\ ret[d].op = "OpenKVForPeer"
      /\ ret[c].pub = ret[d].pub
      /\ ret[c].pub \in DOMAIN bucketPeerStorage
      /\ Cardinality(BindingBackends(ret[c].pub)) >= 2
      /\ ret[c].line = 144 /\ ret[c].err = "BackendOpenFailure"
      /\ ret[d].line = 149 /\ ret[d].val # None
      /\ Len(MergedStores(d)) >= 2


\* C12: while a dial is in Handshaking its caller has no registry transaction
\* open: the read transaction of the address lookup has ended and the caller
\* does not hold the writer lock; and a MakePeer caller waiting to begin its
\* write transaction can begin it whenever the writer lock is free, whatever
\* handshakes are under way.
C12_NoTxDuringHandshake ==
    \A c \in Procs :
      pc[c] = "Handshaking" =>
        /\ ~local[c].rtx
        /\ local[c].tx = NoTx
        /\ writer # c
        /\ \A d \in Procs :
             pc[d] = "Update" /\ writer = 0 => ENABLED UpdateBegin(d)

\* One caller is in its handshake while another runs the write transaction of
\* MakePeer.
C12_Witness ==
    \E c, d \in Procs :
      /\ pc[c] = "Handshaking" /\ conn[c].state = "connecting"
      /\ pc[d] = "getOrMake" /\ writer = d


\* C13: an identity record, once stored, is never updated or deleted, nor is
\* an entry of the id index; and every GetPeer and MakePeer that returns for a
\* key with a stored record returns the id of that record, so a key's id is
\* the same at every later call.
C13_StableIdentity ==
    [][ /\ \A k \in DOMAIN bucketPeer :
             k \in DOMAIN bucketPeer' /\ bucketPeer'[k] = bucketPeer[k]
        /\ \A i \in DOMAIN bucketPeerID :
             i \in DOMAIN bucketPeerID' /\ bucketPeerID'[i] = bucketPeerID[i]
        /\ \A c \in Procs : \A o \in {"GetPeer", "MakePeer"} :
             Returns(c, o) /\ ret'[c].pub \in DOMAIN bucketPeer
             => /\ ret'[c].err = "nil"
                /\ ret'[c].val # None
                /\ ret'[c].val[1].ID = StoredID(ret'[c].pub)
                /\ ret'[c].val[1].Pub = ret'[c].pub
      ]_vars

\* After another key was registered too, a GetPeer and a MakePeer on the key
\* registered first both returned its stored id.
C13_Witness ==
    \E k \in Keys : \E c, d \in Procs :
        /\ Cardinality(DOMAIN bucketPeer) >= 2
        /\ k \in DOMAIN bucketPeer
        /\ ReturnedOK(c, "GetPeer", k) /\ ret[c].val # None
        /\ ret[c].val[1].ID = StoredID(k)
        /\ ReturnedOK(d, "MakePeer", k) /\ ret[d].line = 72
        /\ ret[d].val = ret[c].val


C15_TimeoutBound ==
    \A c \in Procs :
      (pc[c] = "Handshaking" /\ conn[c].silent)
        ~> /\ pc[c] = "idle"
           /\ ret[c].op = "DialPeer"
           /\ ret[c].err # "nil"
           /\ ret[c].val = None
           /\ conn[c].state = "closed"

\* A dial ended by the timeout.
C15_Witness ==
    \E c \in Procs :
        /\ pc[c] = "idle"
        /\ ret[c].op = "DialPeer" /\ ret[c].line = 197
        /\ ret[c].err = "grpc: timed out trying to connect"
        /\ ret[c].val = None
        /\ conn[c].state = "closed" /\ conn[c].addr = "addr"


\* The state of caller c's dial attempt: under way, or as its DialPeer call
\* ended; a peerClient that was closed since belongs to an attempt that ended
\* Authenticated.
DialState(c) ==
    IF pc[c] \in {"Resolving", "Handshaking"} THEN pc[c]
    ELSE IF ret[c].op = "Close" THEN "Authenticated"
    ELSE IF ret[c].op # "DialPeer" THEN "none"
    ELSE IF ret[c].err = "nil" /\ ret[c].val # None THEN "Authenticated"
    ELSE "Failed"

\* C16: a dial attempt moves Resolving -> Handshaking -> Authenticated, or to
\* Failed from Resolving or Handshaking, and in no other way; Authenticated
\* and Failed are left only by a new DialPeer call.  Within one attempt the
\* read transaction of the lookup is begun once, and while the attempt stays
\* in Handshaking nothing of it changes: no second lookup, no second
\* handshake.
C16_DialStateMachine ==
    [][ \A c \in Procs :
          LET s == DialState(c)
              t == DialState(c)'
          IN  /\ s # t =>
                   \/ /\ s \in {"none", "Authenticated", "Failed"}
                      /\ t = "Resolving" /\ pc[c] = "idle"
                   \/ s = "Resolving" /\ t \in {"Handshaking", "Failed"}
                   \/ s = "Handshaking" /\ t \in {"Authenticated", "Failed"}
              /\ s = "Resolving" /\ t = "Resolving" /\ local'[c] # local[c]
                   => ~local[c].rtx /\ local'[c].rtx
              /\ s = "Handshaking" /\ t = "Handshaking"
                   => local'[c] = local[c] /\ conn'[c] = conn[c]
      ]_vars

\* Attempts that went through each edge: one ended Authenticated; another
\* failed in Resolving, for a key without address.
C16_Witness ==
    \E c, d \in Procs :
        /\ DialState(c) = "Authenticated" /\ ret[c].op = "DialPeer"
        /\ conn[c].state = "open"
        /\ DialState(d) = "Failed" /\ conn[d].state = "none"
        /\ ret[d].err = "no address known for peer"


\* The numerically largest of a non-empty set of uint32 values.
NumericMax(S) == CHOOSE m \in S : \A x \in S : x = m \/ U32Less(x, m)

\* The last key of the id index in byte order holds the numerically largest
\* id of the index.
LastKeyIsMax ==
    bucketPeerID # <<>> =>
      BigEndianUint32(CursorLast(bucketPeerID)[1]) = NumericMax(IndexIDs)

\* C17: the last key of the id index in byte order always holds its
\* numerically largest id; and an entry added to the index holds that largest
\* id plus one, or 1 when the index was empty, the index being the one the
\* adding write transaction itself read; the caller is returned that id.
C17_MaxPlusOne ==
    [][ /\ LastKeyIsMax
        /\ LastKeyIsMax'
        /\ \A i \in DOMAIN bucketPeerID' \ DOMAIN bucketPeerID :
             /\ BigEndianUint32(i) =
                  IF bucketPeerID = <<>> THEN <<0, 1>>
                  ELSE U32Inc(NumericMax(IndexIDs))
             /\ \E c \in Procs :
                  /\ writer = c /\ pc[c] = "getOrMake"
                  /\ local[c].tx.peerID = bucketPeerID
                  /\ ret'[c].val = Some([ID |-> BigEndianUint32(i),
                                         Pub |-> bucketPeerID'[i]])
      ]_vars

\* Onto an index whose largest id was 254 a MakePeer added id 255, which is
\* now the last key.
C17_Witness ==
    \E c \in Procs :
        /\ ret[c].op = "MakePeer" /\ ret[c].line = 120
        /\ ret[c].val # None /\ ret[c].val[1].ID = <<0, 255>>
        /\ <<0, 254>> \in IndexIDs
        /\ CursorLast(bucketPeerID) = Some(<<0, 0, 0, 255>>)


\* Key k has a stored identity record that does not decode.
Corrupt(k) == k \in DOMAIN bucketPeer /\ UnmarshalPeer(bucketPeer[k]).err # "nil"

\* C18: a GetPeer or MakePeer on a key whose stored record does not decode
\* returns the decoding error, which is not ErrPeerNotFound, and no peer;
\* MakePeer then does not go on to its write transaction, so no bucket
\* changes: no id is allocated and the record is not overwritten.
C18_CorruptIsHardError ==
    [][ /\ \A c \in Procs : \A o \in {"GetPeer", "MakePeer"} :
             Returns(c, o) /\ Corrupt(ret'[c].pub)
             => /\ ret'[c].err = UnmarshalPeer(bucketPeer[ret'[c].pub]).err
                /\ ret'[c].err \notin {"nil", "ErrPeerNotFound", "out of peer IDs"}
                /\ ret'[c].val = None
                /\ buckets' = buckets
        /\ \A c \in Procs :
             pc[c] = "idle" /\ pc'[c] = "Update" => ~Corrupt(pub'[c])
        /\ \A k \in Keys :
             Corrupt(k) => /\ bucketPeer'[k] = bucketPeer[k]
                           /\ IndexKeysOf(k)' = IndexKeysOf(k)
      ]_vars

\* On one key with a damaged record one MakePeer met the decoding error in
\* its optimistic lookup, another in the lookup inside its write transaction.
C18_Witness ==
    \E k \in Keys : \E c, d \in Procs :
        /\ Corrupt(k)
        /\ ret[c].op = "MakePeer" /\ ret[c].pub = k /\ ret[c].line = 72
        /\ ret[c].err = "proto: unmarshal error" /\ ret[c].val = None
        /\ ret[d].op = "MakePeer" /\ ret[d].pub = k /\ ret[d].line = 118
        /\ ret[d].err = "proto: unmarshal error" /\ ret[d].val = None

\* This step is a step of caller c in GetPeer, OpenKVForPeer, DialPeer or
\* Close.
ReadOpStep(c) ==
    /\ <<pc[c], ret[c], local[c], conn[c]>>' # <<pc[c], ret[c], local[c], conn[c]>>
    /\ \/ pc[c] \in {"openStorage", "Resolving", "Handshaking"}
       \/ pc'[c] \in {"openStorage", "Resolving", "Handshaking"}
       \/ ret'[c].op \in {"GetPeer", "OpenKVForPeer", "DialPeer", "Close"}

\* The step adds one identity record and the index entry of its id, and
\* changes nothing else in the buckets.
PairedInsert ==
    \E k \in Keys \ DOMAIN bucketPeer :
      \E i \in DOMAIN bucketPeerID' \ DOMAIN bucketPeerID :
        /\ DOMAIN bucketPeer' = DOMAIN bucketPeer \cup {k}
        /\ \A j \in DOMAIN bucketPeer : bucketPeer'[j] = bucketPeer[j]
        /\ DOMAIN bucketPeerID' = DOMAIN bucketPeerID \cup {i}
        /\ \A j \in DOMAIN bucketPeerID : bucketPeerID'[j] = bucketPeerID[j]
        /\ bucketPeerID'[i] = k
        /\ UnmarshalPeer(bucketPeer'[k]).msg.Id = BigEndianUint32(i)

\* C19: no step of GetPeer, OpenKVForPeer, DialPeer or Close changes a bucket;
\* no step at all changes the address or the storage bucket; and a step that
\* changes a bucket is the commit of a MakePeer that returns the new peer,
\* adding one identity record and one index entry together.
C19_Frame ==
    [][ /\ bucketPeerAddr' = bucketPeerAddr
        /\ bucketPeerStorage' = bucketPeerStorage
        /\ \A c \in Procs : ReadOpStep(c) => buckets' = buckets
        /\ buckets' # buckets =>
             /\ PairedInsert
             /\ \E c \in Procs :
                  /\ pc[c] = "getOrMake" /\ writer = c
                  /\ Returns(c, "MakePeer") /\ ret'[c].line = 120
      ]_vars

\* A MakePeer has registered a key and an OpenKVForPeer or a DialPeer has
\* gone through all its steps on a key with bindings.
C19_Witness ==
    \E c, d \in Procs :
        /\ ret[c].op = "MakePeer" /\ ret[c].line = 120
        /\ ret[c].pub \in DOMAIN bucketPeer
        /\ \/ ret[d].op = "DialPeer" /\ ret[d].line = 204
           \/ ret[d].op = "OpenKVForPeer" /\ ret[d].line = 149
        /\ ret[d].pub \in DOMAIN bucketPeerAddr


\* C20: OpenKVForPeer on a key whose storage binding lists no backend returns
\* no error and the merged handle over no stores; it returns
\* ErrNoStorageForPeer exactly when the key has no storage binding; neither
\* depends on the key having an identity record.
C20_EmptyBinding ==
    \A c \in Procs :
      ret[c].op = "OpenKVForPeer" =>
        /\ (ret[c].pub \in DOMAIN bucketPeerStorage /\ BindingBackends(ret[c].pub) = {})
             => /\ ret[c].err = "nil"
                /\ ret[c].line = 149
                /\ ret[c].val = kvmultiNew(<<>>)
        /\ ret[c].err = "ErrNoStorageForPeer"
             <=> ret[c].pub \notin DOMAIN bucketPeerStorage

\* A key without identity record whose binding lists no backend was opened,
\* and the open of a registered key without binding was refused.
C20_Witness ==
    \E c, d \in Procs :
        /\ ret[c].op = "OpenKVForPeer"
        /\ ret[c].pub \in DOMAIN bucketPeerStorage
        /\ BindingBackends(ret[c].pub) = {}
        /\ ret[c].pub \notin DOMAIN bucketPeer
        /\ ret[c].val = kvmultiNew(<<>>)
        /\ ret[d].op = "OpenKVForPeer"
        /\ ret[d].pub \in DOMAIN bucketPeer
        /\ ret[d].err = "ErrNoStorageForPeer"


====
